---- MODULE Spec2Model ----
(***************************************************************************)
(* A model of the HNSW index with payloads (src/lib/embedding/hnsw/db.ts)  *)
(* and of the SemanticSearchService that rebuilds it from a cache of note  *)
(* embeddings.  The HNSW core (main.ts, node.ts, pqueue.ts, similarity.ts) *)
(* is not among the source files; it is modelled from sections 3-4 of the  *)
(* specification.                                                          *)
(***************************************************************************)
EXTENDS Integers, Sequences, FiniteSets, TLC

(* ------------------------------ bounds -------------------------------- *)

\* Node ids are 1..MaxId; a graph holds at most MaxId nodes.
MaxId == 3
\* The random top layer of a new node is drawn from 0..MaxLevel.
MaxLevel == 1
\* The addOrUpdateNote calls a caller has in flight at once.
MaxInFlight == 2

(* --------------------------- JavaScript values ------------------------ *)

\* null, a present value, and undefined.  The three are tuples of different
\* lengths, so that any two of them can be compared.
Null == <<>>
Some(x) == <<x>>
Get(o) == o[1]
Undefined == <<"undefined", "undefined">>

\* An object is a record; a property it lacks reads as undefined.
Prop(r, f) == IF f \in DOMAIN r THEN r[f] ELSE Undefined

\* F applied to the value v: v is computed once, whatever F makes of it.
With(v, F(_)) == F(v)

Abs(x) == IF x < 0 THEN 0 - x ELSE x

RECURSIVE Gcd(_, _)
Gcd(a, b) == IF b = 0 THEN a ELSE Gcd(b, a % b)

\* An exact rational n/d, d > 0, in lowest terms: equal scores are equal values.
Rat(n, d) == With(Gcd(Abs(n), d), LAMBDA g : [n |-> n \div g, d |-> d \div g])

Less(a, b) == a.n * b.d < b.n * a.d

\* A JavaScript Map: its entries <<key, value>> in insertion order.
MapHas(m, k) == \E i \in DOMAIN m : m[i][1] = k
MapIndex(m, k) == CHOOSE i \in DOMAIN m : m[i][1] = k
MapGet(m, k) == IF MapHas(m, k) THEN m[MapIndex(m, k)][2] ELSE Undefined
MapSet(m, k, v) ==
    IF MapHas(m, k)
    THEN [m EXCEPT ![MapIndex(m, k)] = <<k, v>>]
    ELSE Append(m, <<k, v>>)
MapKeys(m) == {m[i][1] : i \in DOMAIN m}

RECURSIVE NewMapFrom(_, _)
NewMapFrom(m, entries) ==
    IF entries = <<>> THEN m
    ELSE NewMapFrom(MapSet(m, Head(entries)[1], Head(entries)[2]), Tail(entries))

\* new Map(entries)
NewMap(entries) == NewMapFrom(<<>>, entries)

RECURSIVE Ulp(_)
Ulp(x) == IF Abs(x) < 16777216 THEN 1 ELSE 2 * Ulp(x \div 2)

\* One number stored into a Float32Array: rounded to 24 significant bits,
\* ties to even.
ToFloat32(x) ==
    With(Ulp(x), LAMBDA u :
    With((x \div u) * u, LAMBDA lo :
        IF lo = x THEN x
        ELSE IF 2 * (x - lo) < u THEN lo
        ELSE IF 2 * (x - lo) > u THEN lo + u
        ELSE IF (lo \div u) % 2 = 0 THEN lo ELSE lo + u))

\* new Float32Array(v), v an array of numbers.
Float32Array(v) == [i \in DOMAIN v |-> ToFloat32(v[i])]

(* ------------------------------ similarity ---------------------------- *)

RECURSIVE DotFrom(_, _, _)
DotFrom(u, v, i) ==
    IF i > Len(u) THEN 0 ELSE u[i] * v[i] + DotFrom(u, v, i + 1)

Dot(u, v) == DotFrom(u, v, 1)

Sgn(x) == IF x < 0 THEN 0 - 1 ELSE IF x > 0 THEN 1 ELSE 0

\* dot(u,v) / (|u| |v|), 0 when a norm is zero.  The model keeps the exact
\* rational sign(cos) * cos^2, a strictly increasing function of the cosine
\* (1 for equal directions, 0 for orthogonal vectors or a zero norm).
cosineSimilarity(u, v) ==
    With(Dot(u, v), LAMBDA d :
    With(Dot(u, u), LAMBDA nu :
    With(Dot(v, v), LAMBDA nv :
        IF nu = 0 \/ nv = 0 THEN Rat(0, 1) ELSE Rat(Sgn(d) * d * d, nu * nv))))

RECURSIVE Dist2From(_, _, _)
Dist2From(u, v, i) ==
    IF i > Len(u) THEN 0
    ELSE (u[i] - v[i]) * (u[i] - v[i]) + Dist2From(u, v, i + 1)

\* 1 / (1 + distance(u,v)).  The model keeps the exact rational
\* 1 / (1 + distance^2), the same strictly decreasing function of the
\* distance up to a monotone change of scale (1 at distance 0, in (0,1]).
euclideanSimilarity(u, v) == Rat(1, 1 + Dist2From(u, v, 1))

similarity(metric, u, v) ==
    IF metric = "cosine" THEN cosineSimilarity(u, v) ELSE euclideanSimilarity(u, v)

(* ------------------------------ graph storage ------------------------- *)

\* A Node: id, vector, and neighbors[layer + 1], the set of neighbor ids at
\* each layer 0..topLayer.
NewNode(id, vector, level) ==
    [id |-> id, vector |-> vector, neighbors |-> [l \in 1..(level + 1) |-> {}]]

topLayer(node) == Len(node.neighbors) - 1

neighborsAt(node, layer) ==
    IF layer + 1 \in DOMAIN node.neighbors THEN node.neighbors[layer + 1] ELSE {}

addNeighbor(node, layer, id) ==
    [node EXCEPT !.neighbors[layer + 1] = @ \cup {id}]

NodeIds(h) == MapKeys(h.nodes)
NodeOf(h, id) == MapGet(h.nodes, id)
Pos(h, id) == MapIndex(h.nodes, id)
Sim(h, q, id) == similarity(h.metric, q, NodeOf(h, id).vector)

\* a ranks before b for the query q: the higher score, and among equal
\* scores the node inserted first.
Better(h, q, a, b) ==
    With(Sim(h, q, a), LAMBDA sa :
    With(Sim(h, q, b), LAMBDA sb :
        Less(sb, sa) \/ (sa = sb /\ Pos(h, a) < Pos(h, b))))

Best(h, q, S) == CHOOSE a \in S : \A b \in S \ {a} : Better(h, q, a, b)
Worst(h, q, S) == CHOOSE a \in S : \A b \in S \ {a} : Better(h, q, b, a)

RECURSIVE Ranked(_, _, _)
Ranked(h, q, S) ==
    IF S = {} THEN <<>>
    ELSE With(Best(h, q, S), LAMBDA a : <<a>> \o Ranked(h, q, S \ {a}))

\* new HNSW(M, efConstruction, d, metric)
HNSW(M, efConstruction, d, metric) ==
    [M |-> M, efConstruction |-> efConstruction, metric |-> metric, d |-> d,
     levelMax |-> 0, entryPointId |-> Null, nodes |-> <<>>]

(* --------------------------- HNSW core: search ------------------------ *)

\* Single-best-neighbor greedy walk at one layer: move to the best neighbor
\* while it improves on the current point.
RECURSIVE GreedyWalk(_, _, _, _)
GreedyWalk(h, q, cur, layer) ==
    With(neighborsAt(NodeOf(h, cur), layer), LAMBDA nbrs :
        IF nbrs = {} THEN cur
        ELSE With(Best(h, q, nbrs), LAMBDA nb :
                 IF Less(Sim(h, q, cur), Sim(h, q, nb))
                 THEN GreedyWalk(h, q, nb, layer)
                 ELSE cur))

\* Greedy descent through the layers from, from-1, ..., to+1.
RECURSIVE Descend(_, _, _, _, _)
Descend(h, q, cur, from, to) ==
    IF from <= to THEN cur
    ELSE Descend(h, q, GreedyWalk(h, q, cur, from), from - 1, to)

\* The ids of S in insertion order.
RECURSIVE OrderOf(_, _)
OrderOf(h, S) ==
    IF S = {} THEN <<>>
    ELSE With(CHOOSE a \in S : \A b \in S : Pos(h, a) <= Pos(h, b),
              LAMBDA a : <<a>> \o OrderOf(h, S \ {a}))

\* One scored neighbor e: admitted to the candidates C and the best-set W if W
\* is not full or e beats the worst of W, which is then evicted.
Admit(h, q, ef, e, C, W) ==
    IF Cardinality(W) < ef \/ Less(Sim(h, q, Worst(h, q, W)), Sim(h, q, e))
    THEN With(W \cup {e}, LAMBDA W1 :
             [C |-> C \cup {e},
              W |-> IF Cardinality(W1) > ef THEN W1 \ {Worst(h, q, W1)} ELSE W1])
    ELSE [C |-> C, W |-> W]

RECURSIVE Expand(_, _, _, _, _, _)
Expand(h, q, ef, todo, C, W) ==
    IF todo = <<>> THEN [C |-> C, W |-> W]
    ELSE With(Admit(h, q, ef, Head(todo), C, W),
              LAMBDA r : Expand(h, q, ef, Tail(todo), r.C, r.W))

\* The beam search's loop: pop the best unexpanded candidate, stop when it
\* cannot beat the worst of a full best-set, else expand its neighbors.
RECURSIVE Beam(_, _, _, _, _, _, _)
Beam(h, q, ef, layer, C, W, visited) ==
    IF C = {} THEN W
    ELSE With(Best(h, q, C), LAMBDA c :
             IF Cardinality(W) >= ef /\ Less(Sim(h, q, c), Sim(h, q, Worst(h, q, W)))
             THEN W
             ELSE With(neighborsAt(NodeOf(h, c), layer) \ visited, LAMBDA fresh :
                  With(Expand(h, q, ef, OrderOf(h, fresh), C \ {c}, W), LAMBDA r :
                      Beam(h, q, ef, layer, r.C, r.W, visited \cup fresh))))

\* Beam search at one layer from the entry points eps, width ef.
searchLayer(h, q, eps, ef, layer) == Beam(h, q, ef, layer, eps, eps, eps)

\* Every vector the query is scored against has the query's length.
DimOk(h, q) ==
    /\ h.d = Null \/ Len(q) = Get(h.d)
    /\ \A i \in DOMAIN h.nodes : Len(h.nodes[i][2].vector) = Len(q)

Max(a, b) == IF a > b THEN a ELSE b
Min(a, b) == IF a < b THEN a ELSE b

\* searchKNN(query, k): [err, out], out the list of {id, score}.
searchKNN(h, q, k) ==
    IF h.nodes = <<>> \/ k <= 0 THEN [err |-> "none", out |-> <<>>]
    ELSE IF ~DimOk(h, q) THEN [err |-> "DimensionMismatch", out |-> <<>>]
    ELSE With(Descend(h, q, Get(h.entryPointId), h.levelMax, 0), LAMBDA ep :
         With(searchLayer(h, q, {ep}, Max(k, h.efConstruction), 0), LAMBDA W :
         With(Ranked(h, q, W), LAMBDA r :
             [err |-> "none",
              out |-> [i \in 1..Min(k, Len(r)) |->
                          [id |-> r[i], score |-> Sim(h, q, r[i])]]])))

(* -------------------------- HNSW core: insertion ---------------------- *)

\* The diversity heuristic: candidates in descending similarity to v, each
\* accepted unless it is closer to an accepted neighbor than to v; at most M.
RECURSIVE SelectFrom(_, _, _, _, _)
SelectFrom(h, v, todo, M, acc) ==
    IF todo = <<>> \/ Cardinality(acc) >= M THEN acc
    ELSE With(Head(todo), LAMBDA e :
         With(NodeOf(h, e).vector, LAMBDA ev :
         With(\E r \in acc :
                  Less(similarity(h.metric, ev, v),
                       similarity(h.metric, ev, NodeOf(h, r).vector)),
              LAMBDA dominated :
                  SelectFrom(h, v, Tail(todo), M,
                             IF dominated THEN acc ELSE acc \cup {e}))))

selectNeighbors(h, v, cands, M) == SelectFrom(h, v, Ranked(h, v, cands), M, {})

SetNode(h, node) == [h EXCEPT !.nodes = MapSet(@, node.id, node)]

\* prune as it would be were the over-full list left as it is.
pruneSkipped(h, nb, layer) == h

\* A neighbor list that exceeds M is pruned back by the same heuristic,
\* re-evaluated over that neighbor's own list.
prune(h, nb, layer) ==
    With(NodeOf(h, nb), LAMBDA node :
    With(neighborsAt(node, layer), LAMBDA list :
        IF Cardinality(list) > h.M
        THEN SetNode(h, [node EXCEPT !.neighbors[layer + 1] =
                                        selectNeighbors(h, node.vector, list, h.M)])
        ELSE h))

\* The two-step edge update for each selected neighbor: id -> nb, nb -> id,
\* then nb's list is re-pruned.
RECURSIVE connect(_, _, _, _)
connect(h, id, layer, todo) ==
    IF todo = <<>> THEN h
    ELSE With(Head(todo), LAMBDA nb :
         With(SetNode(h, addNeighbor(NodeOf(h, id), layer, nb)), LAMBDA h1 :
         With(SetNode(h1, addNeighbor(NodeOf(h1, nb), layer, id)), LAMBDA h2 :
             connect(prune(h2, nb, layer), id, layer, Tail(todo)))))

\* Layers layer, layer-1, ..., 0 of the new node id: beam search, selection,
\* edges; the candidates found are the entry points of the next layer.
RECURSIVE insertLayers(_, _, _, _)
insertLayers(h, id, layer, eps) ==
    IF layer < 0 THEN h
    ELSE With(NodeOf(h, id).vector, LAMBDA v :
         With(searchLayer(h, v, eps, h.efConstruction, layer), LAMBDA W :
         With(selectNeighbors(h, v, W, h.M), LAMBDA sel :
             insertLayers(connect(h, id, layer, OrderOf(h, sel)), id, layer - 1, W))))

addNodeToGraph(h, id, v, level) ==
    IF h.entryPointId = Null
    THEN [SetNode(h, NewNode(id, v, level)) EXCEPT
              !.entryPointId = Some(id), !.levelMax = level]
    ELSE With(Descend(h, v, Get(h.entryPointId), h.levelMax, level), LAMBDA ep :
         With(SetNode(h, NewNode(id, v, level)), LAMBDA h1 :
         With(insertLayers(h1, id, Min(level, h.levelMax), {ep}), LAMBDA h2 :
             IF level > h.levelMax
             THEN [h2 EXCEPT !.entryPointId = Some(id), !.levelMax = level]
             ELSE h2)))

\* addPoint(id, vector), the new node's top layer being level: [err, h].
addPoint(h, id, v, level) ==
    IF MapHas(h.nodes, id) THEN [err |-> "DuplicateId", h |-> h]
    ELSE IF h.d # Null /\ Len(v) # Get(h.d)
    THEN [err |-> "DimensionMismatch", h |-> h]
    ELSE [err |-> "none",
          h |-> addNodeToGraph([h EXCEPT !.d = Some(Len(v))], id, v, level)]

\* buildIndex(entries): addPoint for each entry in list order; it stops at the
\* first entry that raises, the entries before it inserted.
RECURSIVE buildIndex(_, _, _)
buildIndex(h, entries, levels) ==
    IF entries = <<>> THEN [err |-> "none", h |-> h]
    ELSE With(addPoint(h, Head(entries).id, Head(entries).vector, Head(levels)),
              LAMBDA r : IF r.err # "none" THEN r
                         ELSE buildIndex(r.h, Tail(entries), Tail(levels)))

(* ------------------------------ HNSWWithDB ---------------------------- *)

DefaultM == 16
DefaultEfConstruction == 200

\* new HNSWWithDB(M, efConstruction, d, metric); its db starts as an empty Map.
HNSWWithDB(M, efConstruction, d, metric) == HNSW(M, efConstruction, d, metric)

\* addPointWithData as it would be with db.set(id, data) ahead of the awaited
\* addPoint.
addPointWithDataSetFirst(h, m, id, v, level, data) ==
    With(addPoint(h, id, v, level), LAMBDA r :
        [err |-> r.err, h |-> r.h, db |-> MapSet(m, id, data), next |-> Null])

\* addPointWithData up to its await: addPoint runs; when it raises, the call
\* rejects and the rest of the body is skipped, else db.set(id, data) is left
\* to run when the call resumes.
addPointWithDataCall(h, m, id, v, level, data) ==
    With(addPoint(h, id, v, level), LAMBDA r :
        [err |-> r.err, h |-> r.h, db |-> m,
         next |-> IF r.err = "none" THEN Some([id |-> id, data |-> data]) ELSE Null])

\* addPointWithData after its await: this.db.set(id, data).
addPointWithDataResume(m, id, data) == MapSet(m, id, data)

getPointData(m, id) == MapGet(m, id)

\* searchKNNWithData as it would be with the payload looked up by the
\* result's position instead of its id.
searchKNNWithDataByPosition(h, m, q, k) ==
    With(searchKNN(h, q, k), LAMBDA r :
        [err |-> r.err,
         out |-> [i \in DOMAIN r.out |->
                     [id |-> r.out[i].id, score |-> r.out[i].score,
                      data |-> getPointData(m, i)]]])

searchKNNWithData(h, m, q, k) ==
    With(searchKNN(h, q, k), LAMBDA r :
        [err |-> r.err,
         out |-> [i \in DOMAIN r.out |->
                     [id |-> r.out[i].id, score |-> r.out[i].score,
                      data |-> getPointData(m, r.out[i].id)]]])

\* The base class's toJSON: the record of section 4.6, the nodes as the Map's
\* entries, each vector as its literal numbers.
baseToJSON(h) ==
    [M |-> h.M, efConstruction |-> h.efConstruction, metric |-> h.metric,
     d |-> h.d, levelMax |-> h.levelMax, entryPointId |-> h.entryPointId,
     nodes |-> [i \in DOMAIN h.nodes |-> <<h.nodes[i][1], h.nodes[i][2]>>]]

toJSON(h, m) == [db |-> m] @@ baseToJSON(h)

\* {...node, vector: new Float32Array(node.vector)}; new Float32Array(undefined)
\* is the empty array.
RestoredNode(node) ==
    [vector |-> IF "vector" \in DOMAIN node THEN Float32Array(node.vector) ELSE <<>>]
        @@ node

\* fromJSON as it would be without the lines that restore db.
fromJSONWithoutDb(json) ==
    IF "nodes" \notin DOMAIN json
    THEN [err |-> "TypeError", h |-> Null, db |-> Null]
    ELSE [err |-> "none",
          h |-> [HNSWWithDB(IF "M" \in DOMAIN json THEN json.M ELSE DefaultM,
                               IF "efConstruction" \in DOMAIN json
                                   THEN json.efConstruction
                                   ELSE DefaultEfConstruction,
                               Null, "cosine")
                    EXCEPT !.levelMax = Prop(json, "levelMax"),
                           !.entryPointId = Prop(json, "entryPointId"),
                           !.nodes = NewMap([i \in DOMAIN json.nodes |->
                               <<json.nodes[i][1], RestoredNode(json.nodes[i][2])>>])],
          db |-> <<>>]

\* fromJSON as it would be without the line that restores entryPointId.
fromJSONWithoutEntryPoint(json) ==
    IF "nodes" \notin DOMAIN json
    THEN [err |-> "TypeError", h |-> Null, db |-> Null]
    ELSE [err |-> "none",
          h |-> [HNSWWithDB(IF "M" \in DOMAIN json THEN json.M ELSE DefaultM,
                               IF "efConstruction" \in DOMAIN json
                                   THEN json.efConstruction
                                   ELSE DefaultEfConstruction,
                               Null, "cosine")
                    EXCEPT !.levelMax = Prop(json, "levelMax"),
                           !.nodes = NewMap([i \in DOMAIN json.nodes |->
                               <<json.nodes[i][1], RestoredNode(json.nodes[i][2])>>])],
          db |-> IF "db" \in DOMAIN json THEN NewMap(json.db) ELSE <<>>]

\* fromJSON(json): [err, h, db].  A default parameter value replaces an
\* undefined M or efConstruction; of the missing properties only json.nodes
\* raises (json.nodes.map).
fromJSON(json) ==
    IF "nodes" \notin DOMAIN json
    THEN [err |-> "TypeError", h |-> Null, db |-> Null]
    ELSE LET h0 == HNSWWithDB(IF "M" \in DOMAIN json THEN json.M ELSE DefaultM,
                              IF "efConstruction" \in DOMAIN json
                                  THEN json.efConstruction
                                  ELSE DefaultEfConstruction,
                              Null, "cosine")
             nodes == NewMap([i \in DOMAIN json.nodes |->
                         <<json.nodes[i][1], RestoredNode(json.nodes[i][2])>>])
         IN  [err |-> "none",
              h |-> [h0 EXCEPT !.levelMax = Prop(json, "levelMax"),
                               !.entryPointId = Prop(json, "entryPointId"),
                               !.nodes = nodes],
              db |-> IF "db" \in DOMAIN json THEN NewMap(json.db) ELSE <<>>]

(* ------------------------ SemanticSearchService ----------------------- *)

\* A text is its characters in order.
Whitespace == {" ", "\n"}

RECURSIVE TrimLeft(_)
TrimLeft(t) == IF t # <<>> /\ Head(t) \in Whitespace THEN TrimLeft(Tail(t)) ELSE t

RECURSIVE TrimRight(_)
TrimRight(t) ==
    IF t # <<>> /\ t[Len(t)] \in Whitespace
    THEN TrimRight(SubSeq(t, 1, Len(t) - 1))
    ELSE t

\* String.prototype.trim
trim(t) == TrimRight(TrimLeft(t))

\* One inline of a block: its text when it is a text inline, else ''.
inlineText(inline) ==
    IF "type" \in DOMAIN inline /\ inline.type = "text" /\ "text" \in DOMAIN inline
    THEN inline.text
    ELSE <<>>

RECURSIVE joinInlines(_)
joinInlines(inlines) ==
    IF inlines = <<>> THEN <<>>
    ELSE inlineText(Head(inlines)) \o joinInlines(Tail(inlines))

\* One block: the texts of its inlines when its content is an array, else ''.
blockText(block) ==
    IF block.content = "array" THEN joinInlines(block.inlines) ELSE <<>>

RECURSIVE joinBlocks(_)
joinBlocks(blocks) ==
    IF blocks = <<>> THEN <<>>
    ELSE IF Len(blocks) = 1 THEN blockText(Head(blocks))
    ELSE blockText(Head(blocks)) \o <<"\n">> \o joinBlocks(Tail(blocks))

\* blocksToText(blocks), blocks being undefined or Some(the list of blocks).
blocksToText(blocks) == IF blocks = Undefined THEN <<>> ELSE joinBlocks(Get(blocks))

\* The square root of a perfect square.
Sqrt(n) == CHOOSE r \in 0..n : r * r = n

\* l2Normalize(v): v scaled by 1 / sqrt(sum of squares), the sum replaced by
\* 1e-9 when it is 0 (the zero vector stays the zero vector).  Exact on the
\* vectors with one non-zero component, which are the ones the embedder of the
\* model returns.
l2Normalize(v) ==
    With(Dot(v, v), LAMBDA norm :
        IF norm = 0 THEN Float32Array(v)
        ELSE Float32Array([i \in DOMAIN v |-> v[i] \div Sqrt(norm)]))

\* vecToBlob / blobToVec (binaryUtils): the floats as bytes, and the first
\* dim floats of the bytes read back.
vecToBlob(v) == [floats |-> v]
blobToVec(blob, dim) ==
    IF dim <= Len(blob.floats)
    THEN [err |-> "none", v |-> SubSeq(blob.floats, 1, dim)]
    ELSE [err |-> "RangeError", v |-> <<>>]

ServiceM == 16
ServiceEfConstruction == 200

MapDelete(m, k) == SelectSeq(m, LAMBDA e : e[1] # k)

\* buildHNSWIndex(): the index part of the service, ix = [hnswIndex,
\* noteIdToIndex, indexToNoteId, nextIndex], rebuilt from the cache emb; levels
\* are the top layers drawn for the insertions.  When buildIndex raises, the
\* new index, with the entries inserted before the raise, and the new id maps
\* are already in place.
buildHNSWIndex(emb, ix, levels) ==
    IF Len(emb) = 0
    THEN [err |-> "none", ix |-> [ix EXCEPT !.hnswIndex = Null]]
    ELSE With([i \in DOMAIN emb |-> [id |-> i - 1, vector |-> emb[i][2].embedding]],
              LAMBDA indexData :
         With(buildIndex(HNSW(ServiceM, ServiceEfConstruction, Null, "cosine"),
                         indexData, levels),
              LAMBDA r :
             [err |-> r.err,
              ix |-> [hnswIndex |-> Some(r.h),
                      noteIdToIndex |-> [i \in DOMAIN emb |-> <<emb[i][1], i - 1>>],
                      indexToNoteId |-> [i \in DOMAIN emb |-> <<i - 1, emb[i][1]>>],
                      nextIndex |-> Len(emb)]]))

\* The cache entry of one row of the store, or the row skipped.
RECURSIVE rowsToEmbeddings(_, _)
rowsToEmbeddings(emb, table) ==
    IF table = <<>> THEN emb
    ELSE With(Head(table)[2], LAMBDA row :
         With(IF "vecData" \in DOMAIN row THEN blobToVec(row.vecData, row.vecDim)
              ELSE [err |-> "skipped", v |-> <<>>],
              LAMBDA vec :
             rowsToEmbeddings(
                 IF vec.err = "none"
                 THEN MapSet(emb, row.noteId,
                             [noteId |-> row.noteId, title |-> row.title,
                              content |-> row.content, embedding |-> vec.v])
                 ELSE emb,
                 Tail(table))))

\* loadEmbeddingsFromStore(), a store being attached: the cache is cleared and
\* refilled from the rows of the embeddings table, then the index is rebuilt.
loadEmbeddingsFromStore(table, ix, levels) ==
    With(rowsToEmbeddings(<<>>, table), LAMBDA emb :
        [embeddings |-> emb, ix |-> buildHNSWIndex(emb, ix, levels).ix])

\* The row events.noteEmbedded writes, and the table after the commit.
noteEmbeddedRow(noteId, title, text, vector) ==
    [noteId |-> noteId, title |-> title, content |-> text,
     vecData |-> vecToBlob(vector), vecDim |-> Len(vector)]

commitNoteEmbedded(table, row) == MapSet(table, row.noteId, row)
commitEmbeddingRemoved(table, noteId) == MapDelete(table, noteId)

\* search() as it would be with each result put in front of the ones before it.
RECURSIVE searchResultsReversed(_, _, _)
searchResultsReversed(hnswResults, indexToNoteId, emb) ==
    IF hnswResults = <<>> THEN <<>>
    ELSE With(Head(hnswResults), LAMBDA result :
         With(searchResultsReversed(Tail(hnswResults), indexToNoteId, emb), LAMBDA rest :
         With(MapGet(indexToNoteId, result.id), LAMBDA noteId :
             IF MapHas(indexToNoteId, result.id) /\ noteId # "" /\ MapHas(emb, noteId)
             THEN With(MapGet(emb, noteId), LAMBDA e :
                      rest \o <<[noteId |-> e.noteId, title |-> e.title,
                                content |-> e.content, score |-> result.score]>>)
             ELSE rest)))

\* The loop of search(): each result of searchKNN whose id maps to a note id
\* that is in the cache, in order, with the note's title and content.
RECURSIVE searchResults(_, _, _)
searchResults(hnswResults, indexToNoteId, emb) ==
    IF hnswResults = <<>> THEN <<>>
    ELSE With(Head(hnswResults), LAMBDA result :
         With(searchResults(Tail(hnswResults), indexToNoteId, emb), LAMBDA rest :
         With(MapGet(indexToNoteId, result.id), LAMBDA noteId :
             IF MapHas(indexToNoteId, result.id) /\ noteId # "" /\ MapHas(emb, noteId)
             THEN With(MapGet(emb, noteId), LAMBDA e :
                      <<[noteId |-> e.noteId, title |-> e.title,
                        content |-> e.content, score |-> result.score]>> \o rest)
             ELSE rest)))

\* search() once the query's embedding is there: [err, hnswResults, results].
\* searchKNN on a null hnswIndex or with a query of another length raises; the
\* catch returns [].
searchAfterEmbed(hnswIndex, indexToNoteId, emb, queryVector, limit) ==
    IF hnswIndex = Null
    THEN [err |-> "TypeError", hnswResults |-> <<>>, results |-> <<>>]
    ELSE With(searchKNN(Get(hnswIndex), l2Normalize(queryVector), limit), LAMBDA r :
             IF r.err # "none"
             THEN [err |-> r.err, hnswResults |-> <<>>, results |-> <<>>]
             ELSE [err |-> "none", hnswResults |-> r.out,
                   results |-> searchResults(r.out, indexToNoteId, emb)])

(* ------------------------------ inputs -------------------------------- *)

Ids == 1..MaxId

\* The points of the data set, taken in turn by the ids 1, 2, 3, ...
Points == << <<1, 0>>, <<1, 1>>, <<0, 1>>, <<2, 0>> >>
VecOf(id) == Points[((id - 1) % Len(Points)) + 1]
\* A vector of another length.
ShortVec == <<1>>
InputVectors(id) == {VecOf(id), ShortVec}

Queries == { <<1, 0>>, <<0, 1>>, <<0, 0>>, <<1>> }
Ks == (0 - 1)..2
Data == { Some("a"), Some("b") }
Levels == 0..MaxLevel

\* The construction parameters an index is built with.
Configs ==
    { [M |-> 1, efConstruction |-> 2, d |-> Null, metric |-> "cosine"],
      [M |-> 1, efConstruction |-> 1, d |-> Some(2), metric |-> "euclidean"],
      [M |-> 2, efConstruction |-> 2, d |-> Some(2), metric |-> "cosine"],
      [M |-> 2, efConstruction |-> 1, d |-> Null, metric |-> "euclidean"] }

\* The parameters, queries, ks and top layers of the runs that attach payloads.
DBConfigs ==
    { [M |-> 1, efConstruction |-> 2, d |-> Some(2), metric |-> "cosine"] }
DBQueries == { <<1, 0>>, <<0, 1>> }
DBKs == 1..2
DBLevels == {0, MaxLevel}

\* The properties a malformed record may lack.
Fields == {"M", "efConstruction", "levelMax", "entryPointId", "nodes"}
NodeFields == {"vector", "neighbors"}

\* The notes the service is called for, and a note of the store only.
Notes == {"n1", "n2"}
ForeignNote == "n0"
Titles == {"T"}
TextBlock(t) == [content |-> "array", inlines |-> <<[type |-> "text", text |-> t]>>]
Contents ==
    { Some(<<TextBlock(<<" ">>), [content |-> "table"]>>),
      Some(<<TextBlock(<<"a">>)>>) }
\* What the embedder returns, before normalization.
EmbedVectors == { <<2, 0>>, <<0, 3>> }
QueryTexts == { <<" ">>, <<"q">> }
Limits == {0, 1, 2}
\* The embeddings table of the store when it is attached: empty, or with the
\* row of a note embedded elsewhere, with a vector of another length.
InitialTables ==
    { <<>>,
      << <<ForeignNote, noteEmbeddedRow(ForeignNote, "T", <<"z">>, <<1>>)>> >> }
ServiceLevels == {0, MaxLevel}
Stores == {Some("store")}
\* setStore's arguments when the store is also detached.
StoresOrNone == {Null} \cup Stores
\* The contents of calls that overlap, and the vector the embedder returns
\* for a text when it is a function of the text.
OverlapContents == { Some(<<TextBlock(<<"a">>)>>), Some(<<TextBlock(<<"b">>)>>) }
EmbedOf(text) == IF text = <<"a">> THEN <<2, 0>> ELSE <<0, 3>>
\* The note lists syncAllNotes is called with.
SyncNote(id, t) == [id |-> id, title |-> "T", content |-> Some(<<TextBlock(t)>>)]
SyncNoteLists ==
    { <<>>,
      <<SyncNote("n1", <<"a">>)>>,
      <<SyncNote("n1", <<" ">>), SyncNote("n2", <<"a">>)>> }

(* ------------------------------ the index ----------------------------- *)

VARIABLES
    idx,     \* the HNSWWithDB instance's graph: M, ..., entryPointId, nodes
    db,      \* its payload Map
    pend,    \* the addPointWithData call awaiting addPoint, or Null
    stored,  \* history: the payloads stored by completed addPointWithData calls
    obs,     \* what the last call returned to its caller
    embeddings,     \* the service's cache: Map noteId -> NoteEmbedding
    index,          \* hnswIndex, noteIdToIndex, indexToNoteId, nextIndex
    isReady,
    isInitialized,
    storeRef,       \* Null or Some(the store)
    table,          \* the store's embeddings table: Map noteId -> row
    upd,            \* the addOrUpdateNote calls in flight, in order of call
    srch,           \* the search call in flight, or Null
    sync            \* the syncAllNotes call in flight, or Null

ivars == <<idx, db, pend, stored>>
svars ==
    <<embeddings, index, isReady, isInitialized, storeRef, table, upd, srch, sync>>
vars == <<ivars, svars, obs>>

\* The service as constructed, no store attached.
ServiceInit ==
    /\ embeddings = <<>>
    /\ index = [hnswIndex |-> Null, noteIdToIndex |-> <<>>,
                indexToNoteId |-> <<>>, nextIndex |-> 0]
    /\ isReady = FALSE
    /\ isInitialized = FALSE
    /\ storeRef = Null
    /\ upd = <<>>
    /\ srch = Null
    /\ sync = Null

NoObs == [op |-> "none"]

Init ==
    /\ \E c \in Configs : idx = HNSWWithDB(c.M, c.efConstruction, c.d, c.metric)
    /\ db = <<>>
    /\ pend = Null
    /\ stored = <<>>
    /\ obs = NoObs
    /\ ServiceInit /\ table = <<>>

\* The caller takes a result before its next mutating call.
Forget ==
    /\ obs # NoObs
    /\ obs' = NoObs
    /\ UNCHANGED <<ivars, svars>>

AddPoint(id, v, level) ==
    /\ obs = NoObs /\ pend = Null
    /\ \E r \in {addPoint(idx, id, v, level)} :
           /\ idx' = r.h
           /\ obs' = IF r.err = "none" THEN NoObs
                     ELSE [op |-> "addPoint", id |-> id, err |-> r.err]
    /\ UNCHANGED <<db, pend, stored, svars>>

AddPointWithData(id, v, level, data) ==
    /\ obs = NoObs /\ pend = Null
    /\ \E r \in {addPointWithDataCall(idx, db, id, v, level, data)} :
           /\ idx' = r.h
           /\ db' = r.db
           /\ pend' = r.next
           /\ obs' = IF r.err = "none" THEN NoObs
                     ELSE [op |-> "addPointWithData", id |-> id, data |-> data,
                           err |-> r.err]
    /\ UNCHANGED <<stored, svars>>

AddPointWithDataResume ==
    /\ obs = NoObs /\ pend # Null
    /\ db' = addPointWithDataResume(db, Get(pend).id, Get(pend).data)
    /\ stored' = MapSet(stored, Get(pend).id, Get(pend).data)
    /\ pend' = Null
    /\ UNCHANGED <<idx, obs, svars>>

SearchKNN(q, k) ==
    /\ obs = NoObs
    /\ \E r \in {searchKNN(idx, q, k)} :
           obs' = [op |-> "searchKNN", q |-> q, k |-> k, err |-> r.err, out |-> r.out]
    /\ UNCHANGED <<idx, db, pend, stored, svars>>

SearchKNNWithData(q, k) ==
    /\ obs = NoObs
    /\ \E r \in {searchKNNWithData(idx, db, q, k)} :
           obs' = [op |-> "searchKNNWithData", q |-> q, k |-> k,
                   err |-> r.err, out |-> r.out]
    /\ UNCHANGED <<idx, db, pend, stored, svars>>

\* fromJSON(toJSON()), the record handed over as it is.
RoundTrip ==
    /\ obs = NoObs
    /\ \E r \in {fromJSON(toJSON(idx, db))} :
           obs' = [op |-> "fromJSON", lacks |-> "none", err |-> r.err,
                   h |-> r.h, db |-> r.db]
    /\ UNCHANGED <<idx, db, pend, stored, svars>>

\* The record of toJSON() without the property f.
Without(json, f) == [g \in DOMAIN json \ {f} |-> json[g]]

\* The record of toJSON() whose first nodes entry lacks the property f.
WithoutInNode(json, f) ==
    [json EXCEPT !.nodes[1] = <<@[1], Without(@[2], f)>>]

\* fromJSON of a record that lacks a property.
FromMalformed(f) ==
    /\ obs = NoObs
    /\ f \in NodeFields => idx.nodes # <<>>
    /\ \E r \in {fromJSON(IF f \in Fields THEN Without(toJSON(idx, db), f)
                         ELSE WithoutInNode(toJSON(idx, db), f))} :
           obs' = [op |-> "fromJSON", lacks |-> f, err |-> r.err,
                   h |-> r.h, db |-> r.db]
    /\ UNCHANGED <<idx, db, pend, stored, svars>>

Next ==
    \/ \E id \in Ids, level \in Levels : \E v \in InputVectors(id) :
           AddPoint(id, v, level)
    \/ \E q \in Queries, k \in Ks : SearchKNN(q, k)
    \/ RoundTrip
    \/ \E f \in Fields \cup NodeFields : FromMalformed(f)
    \/ Forget

\* The index as a graph: points without payloads, searches, serialization.
Spec == Init /\ [][Next]_vars

InitDB ==
    /\ \E c \in DBConfigs : idx = HNSWWithDB(c.M, c.efConstruction, c.d, c.metric)
    /\ db = <<>>
    /\ pend = Null
    /\ stored = <<>>
    /\ obs = NoObs
    /\ ServiceInit /\ table = <<>>

NextDB ==
    \/ \E id \in Ids, level \in DBLevels, data \in Data : \E v \in InputVectors(id) :
           AddPointWithData(id, v, level, data)
    \/ AddPointWithDataResume
    \/ \E q \in DBQueries, k \in DBKs : SearchKNNWithData(q, k)
    \/ RoundTrip
    \/ Forget

\* The index with its payload map.
SpecDB == InitDB /\ [][NextDB]_vars
(* ------------------------------ the service --------------------------- *)

\* The top layers drawn for a rebuild from a cache of n embeddings.
LevelDraws(n) == [1..n -> ServiceLevels]

\* A sequence without its i-th element.
RemoveAt(s, i) == SubSeq(s, 1, i - 1) \o SubSeq(s, i + 1, Len(s))

\* An addOrUpdateNote call as it starts, made by the caller or by
\* syncAllNotes.  History: removed tells that removeNote(noteId) has returned
\* while the call was awaiting its embedding, with no call for the note since;
\* later is the cache entry written by a call for the same note made after
\* this one, with no removal of the note and no call for it since.
NewCall(noteId, title, content, by) ==
    [noteId |-> noteId, title |-> title, content |-> content,
     pc |-> "initialize", by |-> by, removed |-> FALSE, later |-> Null]

\* History, when addOrUpdateNote(noteId, ...) is called.
MarkCalled(calls, noteId) ==
    [j \in DOMAIN calls |->
        IF calls[j].noteId = noteId
        THEN [calls[j] EXCEPT !.removed = FALSE, !.later = Null]
        ELSE calls[j]]

\* History, when removeNote(noteId) returns.
MarkRemoved(calls, noteId) ==
    [j \in DOMAIN calls |->
        IF calls[j].noteId = noteId
        THEN [calls[j] EXCEPT !.removed = (calls[j].pc = "embed"), !.later = Null]
        ELSE calls[j]]

\* History, when the i-th call has written entry to the cache.
MarkLater(calls, i, entry) ==
    [j \in DOMAIN calls |->
        IF j < i /\ calls[j].noteId = entry.noteId
        THEN [calls[j] EXCEPT !.later = Some(entry)]
        ELSE calls[j]]

\* setStore(store)
SetStore(store) ==
    /\ obs = NoObs
    /\ storeRef' = store
    /\ IF ~isInitialized /\ store # Null
       THEN /\ isInitialized' = TRUE
            /\ \E levels \in LevelDraws(Len(rowsToEmbeddings(<<>>, table))) :
                   \E r \in {loadEmbeddingsFromStore(table, index, levels)} :
                       embeddings' = r.embeddings /\ index' = r.ix
       ELSE UNCHANGED <<isInitialized, embeddings, index>>
    /\ UNCHANGED <<ivars, obs, isReady, table, upd, srch, sync>>

\* removeNote(noteId): delete, commit, rebuild; what raises is caught.
RemoveNote(noteId) ==
    /\ obs = NoObs
    /\ \E emb \in {MapDelete(embeddings, noteId)} :
           /\ embeddings' = emb
           /\ table' = IF storeRef # Null THEN commitEmbeddingRemoved(table, noteId)
                       ELSE table
           /\ \E levels \in LevelDraws(Len(emb)) :
              \E b \in {buildHNSWIndex(emb, index, levels)} :
                  /\ index' = b.ix
                  /\ obs' = [op |-> "removeNote", noteId |-> noteId,
                             build |-> b.err]
    /\ upd' = MarkRemoved(upd, noteId)
    /\ UNCHANGED <<ivars, isReady, isInitialized, storeRef, srch, sync>>

\* addOrUpdateNote(noteId, title, content) is called: it awaits initialize().
AddOrUpdateNote(noteId, title, content) ==
    /\ obs = NoObs /\ Len(upd) < MaxInFlight
    /\ upd' = Append(MarkCalled(upd, noteId),
                     NewCall(noteId, title, content, "caller"))
    /\ UNCHANGED <<ivars, obs, embeddings, index, isReady, isInitialized,
                   storeRef, table, srch, sync>>

\* initialize() is over (ready, or not when embeddingService.ready() failed)
\* and the i-th addOrUpdateNote call goes on: blank text removes the note and
\* returns, other text is handed to the embedder.
AddOrUpdateNoteInitialized(i, ready) ==
    /\ obs = NoObs /\ upd[i].pc = "initialize"
    /\ isReady' = (isReady \/ ready)
    /\ \E u \in {upd[i]} : \E textContent \in {blocksToText(u.content)} :
           IF trim(textContent) = <<>>
           THEN \E emb \in {MapDelete(embeddings, u.noteId)} :
                    /\ embeddings' = emb
                    /\ table' = IF storeRef # Null
                                THEN commitEmbeddingRemoved(table, u.noteId)
                                ELSE table
                    /\ \E levels \in LevelDraws(Len(emb)) :
                       \E b \in {buildHNSWIndex(emb, index, levels)} :
                           /\ index' = b.ix
                           /\ obs' = [op |-> "addOrUpdateNote",
                                      noteId |-> u.noteId, did |-> "removed",
                                      build |-> b.err, removed |-> FALSE,
                                      later |-> Null]
                    /\ upd' = RemoveAt(upd, i)
           ELSE /\ upd' = [upd EXCEPT ![i] =
                               [u EXCEPT !.pc = "embed", !.content = textContent]]
                /\ UNCHANGED <<embeddings, table, index, obs>>
    /\ UNCHANGED <<ivars, isInitialized, storeRef, srch, sync>>

\* The embedder answers the i-th addOrUpdateNote call with a vector: cache,
\* commit, rebuild.
AddOrUpdateNoteEmbedded(i, vector) ==
    /\ obs = NoObs /\ upd[i].pc = "embed"
    /\ \E u \in {upd[i]} : \E normalizedVector \in {l2Normalize(vector)} :
       \E entry \in {[noteId |-> u.noteId, title |-> u.title,
                      content |-> u.content, embedding |-> normalizedVector]} :
       \E emb \in {MapSet(embeddings, u.noteId, entry)} :
           /\ embeddings' = emb
           /\ table' = IF storeRef # Null
                       THEN commitNoteEmbedded(table,
                                noteEmbeddedRow(u.noteId, u.title, u.content,
                                                normalizedVector))
                       ELSE table
           /\ \E levels \in LevelDraws(Len(emb)) :
              \E b \in {buildHNSWIndex(emb, index, levels)} :
                  /\ index' = b.ix
                  /\ obs' = [op |-> "addOrUpdateNote", noteId |-> u.noteId,
                             did |-> "embedded", build |-> b.err,
                             removed |-> u.removed, later |-> u.later]
           /\ upd' = RemoveAt(MarkLater(upd, i, entry), i)
    /\ UNCHANGED <<ivars, isReady, isInitialized, storeRef, srch, sync>>

\* addOrUpdateNote as it would be if the catch dropped the note from the cache.
AddOrUpdateNoteEmbedFailedDropping(i) ==
    /\ obs = NoObs /\ upd[i].pc = "embed"
    /\ obs' = [op |-> "addOrUpdateNote", noteId |-> upd[i].noteId,
               did |-> "failed", build |-> "none", removed |-> FALSE,
               later |-> Null]
    /\ upd' = RemoveAt(upd, i)
    /\ embeddings' = MapDelete(embeddings, upd[i].noteId)
    /\ UNCHANGED <<ivars, index, isReady, isInitialized, storeRef, table, srch, sync>>

\* The embedder fails the i-th addOrUpdateNote call: the catch reports it.
AddOrUpdateNoteEmbedFailed(i) ==
    /\ obs = NoObs /\ upd[i].pc = "embed"
    /\ obs' = [op |-> "addOrUpdateNote", noteId |-> upd[i].noteId,
               did |-> "failed", build |-> "none", removed |-> FALSE,
               later |-> Null]
    /\ upd' = RemoveAt(upd, i)
    /\ UNCHANGED <<ivars, embeddings, index, isReady, isInitialized, storeRef,
                   table, srch, sync>>

\* syncAllNotes(notes) is called: it awaits initialize().
SyncAllNotes(notes) ==
    /\ obs = NoObs /\ sync = Null
    /\ sync' = Some([notes |-> notes, pc |-> "initialize"])
    /\ UNCHANGED <<ivars, obs, embeddings, index, isReady, isInitialized,
                   storeRef, table, upd, srch>>

\* The loop of syncAllNotes with notes left to process, the cache being emb:
\* addOrUpdateNote is called for the first one and awaited; with none left,
\* loadEmbeddingsFromStore(), which returns at once when no store is attached,
\* and the size of the cache is returned.
SyncLoop(notes, emb) ==
    IF notes # <<>>
    THEN /\ upd' = Append(MarkCalled(upd, Head(notes).id),
                          NewCall(Head(notes).id, Head(notes).title,
                                  Head(notes).content, "sync"))
         /\ sync' = Some([notes |-> Tail(notes), pc |-> "await"])
         /\ embeddings' = emb
         /\ UNCHANGED <<index, obs>>
    ELSE /\ IF storeRef = Null
            THEN embeddings' = emb /\ UNCHANGED index
            ELSE \E levels \in LevelDraws(Len(rowsToEmbeddings(<<>>, table))) :
                 \E r \in {loadEmbeddingsFromStore(table, index, levels)} :
                     embeddings' = r.embeddings /\ index' = r.ix
         /\ obs' = [op |-> "syncAllNotes", size |-> Len(embeddings')]
         /\ sync' = Null
         /\ UNCHANGED upd

\* initialize() is over and syncAllNotes goes on: the cache is cleared, the
\* index is left as it is, and the loop starts.
SyncAllNotesInitialized(ready) ==
    /\ obs = NoObs /\ sync # Null /\ Get(sync).pc = "initialize"
    /\ isReady' = (isReady \/ ready)
    /\ SyncLoop(Get(sync).notes, <<>>)
    /\ UNCHANGED <<ivars, isInitialized, storeRef, table, srch>>

\* The addOrUpdateNote call syncAllNotes awaited has returned: the loop goes on.
SyncAllNotesResumed ==
    /\ obs = NoObs /\ sync # Null /\ Get(sync).pc = "await"
    /\ \A j \in DOMAIN upd : upd[j].by # "sync"
    /\ SyncLoop(Get(sync).notes, embeddings)
    /\ UNCHANGED <<ivars, isReady, isInitialized, storeRef, table, srch>>

\* search(query, limit) is called: it awaits initialize().
Search(query, limit) ==
    /\ obs = NoObs /\ srch = Null
    /\ srch' = Some([query |-> query, limit |-> limit, pc |-> "initialize"])
    /\ UNCHANGED <<ivars, sync, obs, embeddings, index, isReady, isInitialized,
                   storeRef, table, upd>>

NoResults(s, err) ==
    [op |-> "search", query |-> s.query, limit |-> s.limit, err |-> err,
     called |-> FALSE, hnswResults |-> <<>>, results |-> <<>>]

\* initialize() is over and search goes on: [] for a blank query, an empty
\* cache or no index, else the query is handed to the embedder.
SearchInitialized(ready) ==
    /\ obs = NoObs /\ srch # Null /\ Get(srch).pc = "initialize"
    /\ isReady' = (isReady \/ ready)
    /\ IF trim(Get(srch).query) = <<>> \/ Len(embeddings) = 0 \/ index.hnswIndex = Null
       THEN /\ srch' = Null
            /\ obs' = NoResults(Get(srch), "none")
       ELSE /\ srch' = Some([Get(srch) EXCEPT !.pc = "embed"])
            /\ UNCHANGED obs
    /\ UNCHANGED <<ivars, sync, embeddings, index, isInitialized, storeRef, table, upd>>

\* The embedder answers search with the query's vector.
SearchEmbedded(queryVector) ==
    /\ obs = NoObs /\ srch # Null /\ Get(srch).pc = "embed"
    /\ \E s \in {Get(srch)} :
       \E r \in {searchAfterEmbed(index.hnswIndex, index.indexToNoteId, embeddings,
                                   queryVector, s.limit)} :
           obs' = [op |-> "search", query |-> s.query, limit |-> s.limit,
                   err |-> r.err, called |-> r.err = "none",
                   q |-> l2Normalize(queryVector),
                   hnswResults |-> r.hnswResults, results |-> r.results]
    /\ srch' = Null
    /\ UNCHANGED <<ivars, sync, embeddings, index, isReady, isInitialized, storeRef, table, upd>>

\* The embedder fails: the catch returns [].
SearchEmbedFailed ==
    /\ obs = NoObs /\ srch # Null /\ Get(srch).pc = "embed"
    /\ obs' = NoResults(Get(srch), "EmbedError")
    /\ srch' = Null
    /\ UNCHANGED <<ivars, sync, embeddings, index, isReady, isInitialized, storeRef, table, upd>>

\* idx is an index as the service constructs it, nothing inserted.
SvcInit ==
    /\ idx = HNSW(ServiceM, ServiceEfConstruction, Null, "cosine")
    /\ db = <<>>
    /\ pend = Null
    /\ stored = <<>>
    /\ obs = NoObs
    /\ ServiceInit
    /\ table \in InitialTables

SvcNext ==
    \/ \E store \in Stores : SetStore(store)
    \/ \E noteId \in Notes : RemoveNote(noteId)
    \/ \E noteId \in Notes, title \in Titles, content \in Contents :
           upd = <<>> /\ AddOrUpdateNote(noteId, title, content)
    \/ \E i \in DOMAIN upd, ready \in BOOLEAN : AddOrUpdateNoteInitialized(i, ready)
    \/ \E i \in DOMAIN upd, vector \in EmbedVectors : AddOrUpdateNoteEmbedded(i, vector)
    \/ \E i \in DOMAIN upd : AddOrUpdateNoteEmbedFailed(i)
    \/ \E query \in QueryTexts, limit \in Limits : Search(query, limit)
    \/ \E ready \in BOOLEAN : SearchInitialized(ready)
    \/ \E queryVector \in EmbedVectors : SearchEmbedded(queryVector)
    \/ SearchEmbedFailed
    \/ \E queryVector \in EmbedVectors, limit \in Limits :
           SearchKNN(l2Normalize(queryVector), limit)
    \/ Forget

\* The service: notes added, updated, removed and searched, with a store.
SvcSpec == SvcInit /\ [][SvcNext]_vars

OverlapNext ==
    \/ \E store \in Stores : SetStore(store)
    \/ \E noteId \in Notes : RemoveNote(noteId)
    \/ \E noteId \in Notes, title \in Titles, content \in OverlapContents :
           AddOrUpdateNote(noteId, title, content)
    \/ \E i \in DOMAIN upd, ready \in BOOLEAN : AddOrUpdateNoteInitialized(i, ready)
    \/ \E i \in DOMAIN upd :
           upd[i].pc = "embed" /\ AddOrUpdateNoteEmbedded(i, EmbedOf(upd[i].content))
    \/ \E i \in DOMAIN upd : AddOrUpdateNoteEmbedFailed(i)
    \/ Forget

\* The service with addOrUpdateNote calls that overlap each other and removals.
OverlapSpec == SvcInit /\ [][OverlapNext]_vars

StoreNext ==
    \/ \E store \in StoresOrNone : SetStore(store)
    \/ \E noteId \in Notes : RemoveNote(noteId)
    \/ \E noteId \in Notes, title \in Titles, content \in Contents :
           upd = <<>> /\ AddOrUpdateNote(noteId, title, content)
    \/ \E i \in DOMAIN upd, ready \in BOOLEAN : AddOrUpdateNoteInitialized(i, ready)
    \/ \E i \in DOMAIN upd :
           upd[i].pc = "embed" /\ AddOrUpdateNoteEmbedded(i, EmbedOf(upd[i].content))
    \/ \E i \in DOMAIN upd : AddOrUpdateNoteEmbedFailed(i)
    \/ \E notes \in SyncNoteLists : SyncAllNotes(notes)
    \/ \E ready \in BOOLEAN : SyncAllNotesInitialized(ready)
    \/ SyncAllNotesResumed
    \/ Forget

\* The service with its store attached and detached, and syncAllNotes.
StoreSpec == SvcInit /\ [][StoreNext]_vars

(* ------------------------ properties of the index -------------------- *)

\* The last call was fromJSON(toJSON()) of the index as it is.
RoundTripped == obs.op = "fromJSON" /\ obs.lacks = "none"

\* C1: fromJSON(toJSON()) returns an index with the same M, efConstruction,
\* metric, d, levelMax, entryPointId and nodes, on which searchKNN(q, k)
\* returns what it returns on the original, for every q and k.
C1_RoundTripSameIndex ==
    RoundTripped =>
        /\ obs.err = "none"
        /\ obs.h.M = idx.M
        /\ obs.h.efConstruction = idx.efConstruction
        /\ obs.h.metric = idx.metric
        /\ obs.h.d = idx.d
        /\ obs.h.levelMax = idx.levelMax
        /\ obs.h.entryPointId = idx.entryPointId
        /\ obs.h.nodes = idx.nodes
        /\ \A q \in Queries, k \in Ks : searchKNN(obs.h, q, k) = searchKNN(idx, q, k)

\* C2: the record of toJSON carries every id -> data entry of the payload map
\* beside the graph, and after fromJSON(toJSON()) getPointData(id) is what it
\* is on the original, for every id (undefined where there is no payload).
C2_PayloadRoundTrip ==
    /\ LET json == toJSON(idx, db)
       IN  /\ {"nodes", "db"} \subseteq DOMAIN json
           /\ \A i \in DOMAIN db : \E j \in DOMAIN json.db : json.db[j] = db[i]
    /\ RoundTripped =>
           /\ obs.err = "none"
           /\ \A id \in Ids : getPointData(obs.db, id) = getPointData(db, id)

\* A round trip of an index that holds a payload, and a node whose payload is
\* not written yet.
C2_Witness ==
    /\ RoundTripped
    /\ db # <<>>
    /\ \E id \in NodeIds(idx) : getPointData(obs.db, id) = Undefined

\* A result list without its data: the ids and scores, in order.
WithoutData(out) == [i \in DOMAIN out |-> [id |-> out[i].id, score |-> out[i].score]]

\* C3: searchKNNWithData(q, k) returns the list searchKNN(q, k) returns, same
\* length, ids, scores and order, each entry with the payload last stored for
\* its id by a completed addPointWithData; the call changes neither the graph
\* nor the payload map.
C3_SearchWithDataIsSearchPlusPayload ==
    [][(obs.op = "none" /\ obs'.op = "searchKNNWithData") =>
          /\ idx' = idx /\ db' = db
          /\ [err |-> obs'.err, out |-> WithoutData(obs'.out)]
                 = searchKNN(idx, obs'.q, obs'.k)
          /\ \A i \in DOMAIN obs'.out :
                 obs'.out[i].data = MapGet(stored, obs'.out[i].id)]_vars

\* A search that returned two entries, the second with a stored payload and the
\* first without one.
C3_Witness ==
    /\ obs.op = "searchKNNWithData"
    /\ Len(obs.out) = 2
    /\ obs.out[1].data = Undefined
    /\ obs.out[2].data \in Data

\* C4: an addPointWithData that fails (DuplicateId, DimensionMismatch) surfaces
\* the error and leaves the graph and the payload map as they were; no call
\* overwrites the payload stored for an id.
C4_FailedInsertMutatesNothing ==
    [][/\ (obs.op = "none" /\ obs'.op = "addPointWithData") =>
              /\ obs'.err \in {"DuplicateId", "DimensionMismatch"}
              /\ idx' = idx /\ db' = db
       /\ \A id \in MapKeys(db) : getPointData(db', id) = getPointData(db, id)
       /\ \A i \in DOMAIN idx.nodes :
              i \in DOMAIN idx'.nodes /\ idx'.nodes[i][1] = idx.nodes[i][1]
                                      /\ idx'.nodes[i][2].vector = idx.nodes[i][2].vector
      ]_vars

\* A call that failed with DuplicateId for an id whose stored payload is not
\* the one the call carried.
C4_Witness ==
    /\ obs.op = "addPointWithData"
    /\ obs.err = "DuplicateId"
    /\ getPointData(db, obs.id) \in Data \ {obs.data}

\* C5: fromJSON of a record that lacks M, efConstruction, levelMax,
\* entryPointId, nodes, or a node's vector or neighbors, raises.
C5_MalformedRecordRaises ==
    (obs.op = "fromJSON" /\ obs.lacks # "none") => obs.err # "none"

\* The entry point of h: null exactly when h has no nodes, else a node of h
\* whose top layer is the greatest top layer, which is levelMax.
EntryPointOk(h) ==
    /\ h.entryPointId = Null <=> h.nodes = <<>>
    /\ h.nodes # <<>> =>
           /\ MapHas(h.nodes, Get(h.entryPointId))
           /\ topLayer(NodeOf(h, Get(h.entryPointId))) = h.levelMax
           /\ \A i \in DOMAIN h.nodes : topLayer(h.nodes[i][2]) <= h.levelMax

\* C8: entryPointId is null iff the graph has no nodes, and otherwise names a
\* node whose top layer is the graph's maximum layer: after any insertions, and
\* in the index fromJSON returns for a record of toJSON.
C8_EntryPointInvariant ==
    /\ EntryPointOk(idx)
    /\ RoundTripped => obs.err = "none" /\ EntryPointOk(obs.h)

\* A round trip of an index whose entry point is not its first node.
C8_Witness ==
    /\ RoundTripped
    /\ Len(idx.nodes) >= 2
    /\ obs.h.entryPointId # Some(obs.h.nodes[1][1])
    /\ obs.h.levelMax > 0

\* C9: for all nodes a, b and every layer, a lists b if and only if b lists a.
C9_EdgeSymmetry ==
    \A a \in NodeIds(idx), b \in NodeIds(idx), layer \in Levels :
        b \in neighborsAt(NodeOf(idx, a), layer)
            <=> a \in neighborsAt(NodeOf(idx, b), layer)

\* C10: every node has at most M neighbors at every layer.
C10_DegreeBound ==
    \A i \in DOMAIN idx.nodes : \A l \in DOMAIN idx.nodes[i][2].neighbors :
        Cardinality(idx.nodes[i][2].neighbors[l]) <= idx.M

\* A node with a full list that another node lists and that does not list it
\* back: its list was pruned.
C10_Witness ==
    \E a \in NodeIds(idx), b \in NodeIds(idx), layer \in Levels :
        /\ b \in neighborsAt(NodeOf(idx, a), layer)
        /\ a \notin neighborsAt(NodeOf(idx, b), layer)
        /\ Cardinality(neighborsAt(NodeOf(idx, b), layer)) = idx.M

(* ----------------------- properties of the service ------------------- *)

\* The call that has just returned removed the note obs.noteId.
Removed ==
    \/ obs.op = "removeNote"
    \/ obs.op = "addOrUpdateNote" /\ obs.did = "removed"

\* The index and its id maps are the ones a rebuild from the cache emb gives:
\* null for an empty cache, else one node per cached embedding, numbered in
\* the cache's order, with the embedding as its vector.
BuiltFrom(emb, ix) ==
    IF emb = <<>> THEN ix.hnswIndex = Null
    ELSE /\ ix.hnswIndex # Null
         /\ Len(Get(ix.hnswIndex).nodes) = Len(emb)
         /\ \A i \in DOMAIN emb :
                /\ MapHas(Get(ix.hnswIndex).nodes, i - 1)
                /\ NodeOf(Get(ix.hnswIndex), i - 1).vector = emb[i][2].embedding
                /\ MapGet(ix.indexToNoteId, i - 1) = emb[i][1]
                /\ MapGet(ix.noteIdToIndex, emb[i][1]) = i - 1

\* What a search issued now returns once its query is embedded as queryVector.
SearchNow(queryVector, limit) ==
    searchAfterEmbed(index.hnswIndex, index.indexToNoteId, embeddings,
                     queryVector, limit).results

\* C6: when removeNote(X) has just returned, and when addOrUpdateNote(X, ...)
\* with blank text has just returned, X is not in the cache, the index is the
\* rebuild from exactly the cached embeddings that remain (null when none
\* remain), and no search issued now returns X.
C6_RemovalIsFullRebuild ==
    Removed =>
        /\ ~MapHas(embeddings, obs.noteId)
        /\ BuiltFrom(embeddings, index)
        /\ \A queryVector \in EmbedVectors, limit \in Limits :
               \A i \in DOMAIN SearchNow(queryVector, limit) :
                   SearchNow(queryVector, limit)[i].noteId # obs.noteId

\* out is a result list searchKNN(q, k) may give on the index h: at most k
\* entries, by descending score, equal scores in insertion order, and empty
\* when the graph is empty or k <= 0.
KnnOrdered(h, k, out) ==
    /\ Len(out) <= Max(k, 0)
    /\ \A i, j \in DOMAIN out :
           i < j =>
               /\ ~Less(out[i].score, out[j].score)
               /\ out[i].score = out[j].score => Pos(h, out[i].id) < Pos(h, out[j].id)
    /\ (h.nodes = <<>> \/ k <= 0) => out = <<>>

\* results is hnswResults with some entries left out, the rest in order, each
\* with its score and the note id its index id maps to.
SubListOf(results, hnswResults, indexToNoteId) ==
    \E f \in [DOMAIN results -> DOMAIN hnswResults] :
        /\ \A i, j \in DOMAIN results : i < j => f[i] < f[j]
        /\ \A i \in DOMAIN results :
               /\ results[i].score = hnswResults[f[i]].score
               /\ results[i].noteId = MapGet(indexToNoteId, hnswResults[f[i]].id)

\* C7: searchKNN(query, k) returns at most k entries by descending score, ties
\* in insertion order, and the empty list when the graph is empty or k <= 0;
\* search(query, limit) returns a sub-list of what its searchKNN call
\* returned, in the same order: at most limit entries, by descending score.
C7_SearchOrdered ==
    /\ (obs.op = "searchKNN" /\ obs.err = "none") => KnnOrdered(idx, obs.k, obs.out)
    /\ (obs.op = "search" /\ obs.called) =>
           /\ KnnOrdered(Get(index.hnswIndex), obs.limit, obs.hnswResults)
           /\ SubListOf(obs.results, obs.hnswResults, index.indexToNoteId)
           /\ Len(obs.results) <= Max(obs.limit, 0)
           /\ \A i, j \in DOMAIN obs.results :
                  i < j => ~Less(obs.results[i].score, obs.results[j].score)

\* search has returned two notes of different scores.
C7_Witness ==
    /\ obs.op = "search" /\ obs.called
    /\ Len(obs.results) = 2
    /\ Less(obs.results[2].score, obs.results[1].score)

(* -------------- properties of calls in flight and rebuilds ------------ *)

\* C11: a node inserted through addPointWithData is never observable without
\* its payload: every node of the graph has its entry in the payload map, and
\* every entry searchKNNWithData returns carries data, not undefined.
C11_PayloadNeverMissing ==
    /\ \A id \in NodeIds(idx) : getPointData(db, id) # Undefined
    /\ obs.op = "searchKNNWithData" =>
           \A i \in DOMAIN obs.out : obs.out[i].data # Undefined

\* buildHNSWIndex has just returned without raising: removeNote or
\* addOrUpdateNote ran it as their last step.
BuildReturned ==
    /\ obs.op \in {"removeNote", "addOrUpdateNote"}
    /\ obs.build = "none"
    /\ obs.op = "addOrUpdateNote" => obs.did # "failed"

\* The keys and the values of a Map.
MapKeySet(m) == {m[i][1] : i \in DOMAIN m}
MapValueSet(m) == {m[i][2] : i \in DOMAIN m}

\* C12: whenever buildHNSWIndex returns, hnswIndex is null exactly when the
\* cache is empty, the two id maps are inverses of each other, the keys of
\* noteIdToIndex are the cached note ids, the assigned ids are 0..n-1 and
\* nextIndex is n, n the size of the cache, the empty cache included.
C12_IdMapsMatchCache ==
    BuildReturned =>
        /\ (index.hnswIndex = Null) <=> (embeddings = <<>>)
        /\ \A i \in DOMAIN index.noteIdToIndex :
               /\ MapHas(index.indexToNoteId, index.noteIdToIndex[i][2])
               /\ MapGet(index.indexToNoteId, index.noteIdToIndex[i][2])
                      = index.noteIdToIndex[i][1]
        /\ \A i \in DOMAIN index.indexToNoteId :
               /\ MapHas(index.noteIdToIndex, index.indexToNoteId[i][2])
               /\ MapGet(index.noteIdToIndex, index.indexToNoteId[i][2])
                      = index.indexToNoteId[i][1]
        /\ MapKeySet(index.noteIdToIndex) = MapKeySet(embeddings)
        /\ MapValueSet(index.noteIdToIndex) = 0..(Len(embeddings) - 1)
        /\ index.nextIndex = Len(embeddings)

\* C15: search, resumed after its query is embedded, never calls searchKNN on
\* a null hnswIndex, whatever removeNote and addOrUpdateNote did meanwhile,
\* and every result it returns names a note that is in the cache.
C15_SearchIndexNeverMissing ==
    obs.op = "search" =>
        /\ obs.err # "TypeError"
        /\ \A i \in DOMAIN obs.results : MapHas(embeddings, obs.results[i].noteId)

\* C16: when buildIndex raises inside a rebuild, hnswIndex and the id maps
\* are afterwards the ones of before the call, or a complete index over the
\* cache.
C16_FailedRebuildKeepsIndex ==
    [][(/\ obs'.op \in {"removeNote", "addOrUpdateNote"}
        /\ obs = NoObs
        /\ obs'.build # "none")
       => (index' = index \/ BuiltFrom(embeddings', index'))]_vars

\* No call of the service is in flight.
Idle == upd = <<>> /\ srch = Null /\ sync = Null

\* C17: from the first setStore with a store on, whenever nothing is in
\* flight, the note ids of the cache are the note ids with a row in the
\* embeddings table of the attached store, and syncAllNotes returns their
\* number.
C17_CacheMatchesStore ==
    (isInitialized /\ storeRef # Null /\ Idle) =>
        /\ MapKeySet(embeddings) = MapKeySet(table)
        /\ obs.op = "syncAllNotes" =>
               (obs.size = Len(embeddings) /\ obs.size = Len(table))

\* C13: when an addOrUpdateNote(X, ...) call that was awaiting its embedding
\* while removeNote(X) was called and returned has finished too, with no
\* addOrUpdateNote(X, ...) called since the removal, X is not in the cache,
\* has no row in the store and no id in the index.
C13_RemovalNotUndone ==
    (obs.op = "addOrUpdateNote" /\ obs.removed) =>
        /\ ~MapHas(embeddings, obs.noteId)
        /\ ~MapHas(table, obs.noteId)
        /\ ~MapHas(index.noteIdToIndex, obs.noteId)

\* C14: of two overlapping addOrUpdateNote calls for one note, the one called
\* later wins: when the one called first finishes last, the cache entry, the
\* row of the store and the vector in the index are still those of the call
\* made later.
C14_LatestCallWins ==
    (obs.op = "addOrUpdateNote" /\ obs.later # Null) =>
        /\ MapHas(embeddings, obs.noteId)
        /\ MapGet(embeddings, obs.noteId) = Get(obs.later)
        /\ (storeRef # Null /\ MapHas(table, obs.noteId)) =>
               MapGet(table, obs.noteId) =
                   noteEmbeddedRow(obs.noteId, Get(obs.later).title,
                                   Get(obs.later).content, Get(obs.later).embedding)
        /\ BuiltFrom(embeddings, index) =>
               NodeOf(Get(index.hnswIndex),
                      MapGet(index.noteIdToIndex, obs.noteId)).vector
                   = Get(obs.later).embedding

\* C18: when the embedder fails an addOrUpdateNote call with text that is not
\* blank, the call reports it and returns, and no step of the call, from the
\* call to the report, changes the cache, the store, the index or the id maps.
C18_EmbedFailureChangesNothing ==
    [][(\/ (obs = NoObs /\ obs'.op = "addOrUpdateNote" /\ obs'.did = "failed")
        \/ (/\ obs' = obs
            /\ \/ Len(upd') > Len(upd)
               \/ /\ Len(upd') = Len(upd)
                  /\ \E i \in DOMAIN upd : upd'[i].pc # upd[i].pc))
       => (embeddings' = embeddings /\ table' = table /\ index' = index)]_vars

\* The embedder has failed a call for a note that is in the cache, in the
\* store and in the index.
C18_Witness ==
    /\ obs.op = "addOrUpdateNote" /\ obs.did = "failed"
    /\ MapHas(embeddings, obs.noteId)
    /\ MapHas(table, obs.noteId)
    /\ MapHas(index.noteIdToIndex, obs.noteId)

====
